---------------------------- MODULE Spec2Model ----------------------------
(***************************************************************************)
(* Model of pdf_to_text.py: a sequential batch converter that rasterizes   *)
(* each PDF of a folder, runs OCR page by page, cleans the text with a     *)
(* chain of regular expressions, spell-corrects it word by word under a    *)
(* whitelist, and writes one .txt file per PDF.                            *)
(*                                                                         *)
(* Three specifications share the module:                                  *)
(*   Spec        process_pdf_folder / process_pdf_file / ocr_pdf_to_text   *)
(*   NormSpec    the regular-expression chain of clean_and_spellcheck_text *)
(*   RewriteSpec the per-sentence, per-word loop of the same function      *)
(* File names are sequences of tokens; the token ".pdf" stands for the     *)
(* four characters of the extension, every other token for a run of        *)
(* characters that contains no part of ".pdf".  Texts of the normalizer    *)
(* and words of the rewriter are sequences of one-character strings.       *)
(***************************************************************************)
EXTENDS Integers, Sequences, FiniteSets, TLC

(* ------------------------------ bounds --------------------------------- *)
MaxFiles == 2
MaxPages == 2
MaxRuns == 2
MaxTextLen == 4
MaxWords == 2

(* ------------------------------ values --------------------------------- *)
\* sample entries of the input folder: a.pdf, a.pdf.pdf, b.pdf and notes
Names == {<<"a", ".pdf">>, <<"a", ".pdf", ".pdf">>, <<"b", ".pdf">>, <<"notes">>}

PageTexts == {"", "x"}

PageOutcomes == [ok : {TRUE}, text : PageTexts] \cup [ok : {FALSE}, text : {""}]

None == [some |-> FALSE, val |-> <<>>]

Some(v) == [some |-> TRUE, val |-> v]

NoContent == [kind |-> "none", src |-> <<>>, text |-> <<>>]

\* a text file that was in the output folder before the first run
PreContent == [kind |-> "pre", src |-> <<>>]

Stages == {"rasterize", "ocr", "normalize", "rewrite", "write"}

Orderings(S) == {s \in [1..Cardinality(S) -> S] : \A i, j \in 1..Cardinality(S) : s[i] = s[j] => i = j}

(* ---------------------------- state ------------------------------------ *)
VARIABLES
  folder, files, run, pc, listing, pdf_files, idx, pdf_path, txt_file_path,
  images, page_num, page_log, full_text, extracted_text, cleaned_text,
  stages, invoked, results, at_start, failure,
  text_in, pass1, pass2, normalized, norm_pc,
  dnd_whitelist, sentences, si, wi, corrected_sentence, corrected_text,
  lookups, rw_pc

orchVars == <<folder, files, run, pc, listing, pdf_files, idx, pdf_path, txt_file_path, images, page_num, page_log, full_text, extracted_text, cleaned_text, stages, invoked, results, at_start, failure>>

docVars == <<pdf_path, txt_file_path, images, page_num, page_log, full_text, extracted_text, cleaned_text, stages>>

normVars == <<text_in, pass1, pass2, normalized, norm_pc>>

rwVars == <<dnd_whitelist, sentences, si, wi, corrected_sentence, corrected_text, lookups, rw_pc>>

vars == <<orchVars, normVars, rwVars>>

(* ------------------------ pure helpers of the paths --------------------- *)
\* str.endswith(".pdf")
EndsWithPdf(name) == Len(name) > 0 /\ name[Len(name)] = ".pdf"

\* str.replace('.pdf', ''): every occurrence of the substring is removed
IsNotPdfTok(t) == t # ".pdf"

BaseName(name) == SelectSeq(name, IsNotPdfTok)

\* os.path.join(txt_output_folder, f"{base_name}.txt")
TxtFilePath(name) == Append(BaseName(name), ".txt")

\* the existence check left out
AlreadyExistsNever(path, fs) == FALSE

\* os.path.exists(txt_file_path)
AlreadyExists(path, fs) == path \in DOMAIN fs

\* the listing taken without the extension filter
ListAllFiles(l) == l

\* [f for f in os.listdir(pdf_folder) if f.endswith(".pdf")]
ListPdfFiles(l) == SelectSeq(l, EndsWithPdf)

\* f"--- Page {page_num} ---\n{ocr_text}\n"
Section(n, body) == [page |-> n, body |-> body]

\* the test written as "is not None"
IsNotNone(x) == x.some

\* truth value of "if extracted_text:" (None and "" are both false)
Truthy(x) == x.some /\ x.val # <<>>

\* the text handed to the file by clean_and_spellcheck_text, kept abstract
\* here: the character-level effect is modelled by NormSpec and RewriteSpec
Cleaned(name, t) == [kind |-> "cleaned", src |-> name, text |-> t]

\* txt_file.write(cleaned_text): a file is recorded by the document whose
\* cleaned text it holds, not by the characters of that text
Stored(c) == [kind |-> c.kind, src |-> c.src]

\* a file that open() created and write() did not complete
Partial(name) == [kind |-> "partial", src |-> name]

IdleNorm == text_in = <<>> /\ pass1 = <<>> /\ pass2 = <<>> /\ normalized = <<>> /\ norm_pc = "off"

IdleRewrite == dnd_whitelist = {} /\ sentences = <<>> /\ si = 0 /\ wi = 0 /\ corrected_sentence = <<>> /\ corrected_text = <<>> /\ lookups = {} /\ rw_pc = "off"

IdleOrch == folder = {} /\ files = <<>> /\ run = 0 /\ pc = "off" /\ listing = <<>> /\ pdf_files = <<>> /\ idx = 0 /\ pdf_path = <<>> /\ txt_file_path = <<>> /\ images = -1 /\ page_num = 0 /\ page_log = <<>> /\ full_text = <<>> /\ extracted_text = None /\ cleaned_text = NoContent /\ stages = <<>> /\ invoked = <<>> /\ results = <<>> /\ at_start = <<>> /\ failure = "none"

(* ------------------- the regular-expression chain ----------------------- *)
Period == "."

Asterisk == "*"

\* U+00B7, the middle dot
MiddleDot == "mid"

Newline == "\n"

Space == " "

Chars == {Period, Asterisk, MiddleDot, Newline, Space, "a", "A", "1"}

Texts == UNION {[1..n -> Chars] : n \in 0..MaxTextLen}

\* \s
IsSpace(c) == c \in {Newline, Space}

\* [a-z], [A-Z], [0-9]
IsLower(c) == c = "a"

IsUpper(c) == c = "A"

IsDigit(c) == c = "1"

RECURSIVE Pick(_, _, _)
\* the characters of s whose index is in I, from index k on
Pick(s, I, k) == IF k > Len(s) THEN <<>> ELSE (IF k \in I THEN <<s[k]>> ELSE <<>>) \o Pick(s, I, k + 1)

\* re.sub(c{2,}, c): of every run of c only the first character stays
CollapseRunsOf(s, c) == Pick(s, {i \in 1..Len(s) : ~(s[i] = c /\ i > 1 /\ s[i - 1] = c)}, 1)

\* re.sub(c+, ''): every c is deleted
RemoveAll(s, c) == Pick(s, {i \in 1..Len(s) : s[i] # c}, 1)

\* re.sub(r'\.{2,}', '.', text)
CollapsePeriods(s) == CollapseRunsOf(s, Period)

\* re.sub(r'\*+', '', text)
RemoveAsterisks(s) == RemoveAll(s, Asterisk)

\* re.sub(r'·+', '', text)
RemoveMiddleDots(s) == RemoveAll(s, MiddleDot)

\* re.sub(r'\n{2,}', '\n', text)
CollapseNewlines(s) == CollapseRunsOf(s, Newline)

\* last index of the maximal run of whitespace that starts at k
RECURSIVE SpaceRunEnd(_, _)
SpaceRunEnd(s, k) == IF k < Len(s) /\ IsSpace(s[k + 1]) THEN SpaceRunEnd(s, k + 1) ELSE k

\* the pattern written \s{2}: whitespace is replaced pair by pair
RECURSIVE CollapsePairsFrom(_, _)
CollapsePairsFrom(s, k) ==
  IF k > Len(s) THEN <<>>
  ELSE IF IsSpace(s[k]) /\ k < Len(s) /\ IsSpace(s[k + 1])
         THEN <<Space>> \o CollapsePairsFrom(s, k + 2)
         ELSE <<s[k]>> \o CollapsePairsFrom(s, k + 1)

CollapseWhitespacePairs(s) == CollapsePairsFrom(s, 1)

\* re.sub(r'\s{2,}', ' ', text): a run of two or more whitespace characters
\* becomes one space, a single whitespace character stays as it is
RECURSIVE CollapseWhitespaceFrom(_, _)
CollapseWhitespaceFrom(s, k) ==
  IF k > Len(s) THEN <<>>
  ELSE IF IsSpace(s[k]) /\ SpaceRunEnd(s, k) > k
         THEN <<Space>> \o CollapseWhitespaceFrom(s, SpaceRunEnd(s, k) + 1)
         ELSE <<s[k]>> \o CollapseWhitespaceFrom(s, k + 1)

CollapseWhitespace(s) == CollapseWhitespaceFrom(s, 1)

\* re.sub(r'(?<=[a-z])(?=[A-Z])', '. ', text)
RECURSIVE SplitLowerUpperFrom(_, _)
SplitLowerUpperFrom(s, k) ==
  IF k > Len(s) THEN <<>>
  ELSE IF IsLower(s[k]) /\ k < Len(s) /\ IsUpper(s[k + 1])
         THEN <<s[k], Period, Space>> \o SplitLowerUpperFrom(s, k + 1)
         ELSE <<s[k]>> \o SplitLowerUpperFrom(s, k + 1)

SplitLowerUpper(s) == SplitLowerUpperFrom(s, 1)

\* re.sub(r'(?<=[0-9])(?=[A-Z])', '. ', text)
RECURSIVE SplitDigitUpperFrom(_, _)
SplitDigitUpperFrom(s, k) ==
  IF k > Len(s) THEN <<>>
  ELSE IF IsDigit(s[k]) /\ k < Len(s) /\ IsUpper(s[k + 1])
         THEN <<s[k], Period, Space>> \o SplitDigitUpperFrom(s, k + 1)
         ELSE <<s[k]>> \o SplitDigitUpperFrom(s, k + 1)

SplitDigitUpper(s) == SplitDigitUpperFrom(s, 1)

\* index of the last newline in k..e, 0 when there is none
LastNewline(s, k, e) == IF \E m \in k..e : s[m] = Newline THEN CHOOSE m \in k..e : s[m] = Newline /\ \A n \in (m + 1)..e : s[n] # Newline ELSE 0

\* re.sub(r'\s*\n', '.\n', text): the greedy \s* backs off to the last
\* newline of the whitespace run
RECURSIVE PeriodBeforeNewlineFrom(_, _)
PeriodBeforeNewlineFrom(s, k) ==
  IF k > Len(s) THEN <<>>
  ELSE IF IsSpace(s[k]) /\ LastNewline(s, k, SpaceRunEnd(s, k)) # 0
         THEN <<Period, Newline>> \o PeriodBeforeNewlineFrom(s, LastNewline(s, k, SpaceRunEnd(s, k)) + 1)
         ELSE <<s[k]>> \o PeriodBeforeNewlineFrom(s, k + 1)

PeriodBeforeNewline(s) == PeriodBeforeNewlineFrom(s, 1)

\* lines 66-72, the first five substitutions in their order
CollapsePass(s) == CollapseWhitespace(CollapseNewlines(RemoveMiddleDots(RemoveAsterisks(CollapsePeriods(s)))))

\* lines 75-77, the three punctuation fixes in their order
PunctuationFixes(s) == PeriodBeforeNewline(SplitDigitUpper(SplitLowerUpper(s)))

NormInit ==
  /\ text_in \in Texts
  /\ pass1 = <<>> /\ pass2 = <<>> /\ normalized = <<>> /\ norm_pc = "raw"
  /\ IdleOrch /\ IdleRewrite

\* the five collapse rules applied to the raw text
ApplyCollapse ==
  /\ norm_pc = "raw"
  /\ pass1' = CollapsePass(text_in)
  /\ norm_pc' = "collapsed"
  /\ UNCHANGED <<text_in, pass2, normalized, orchVars, rwVars>>

\* the punctuation fixes applied to the collapsed text
ApplyPunctuation ==
  /\ norm_pc = "collapsed"
  /\ normalized' = PunctuationFixes(pass1)
  /\ norm_pc' = "normalized"
  /\ UNCHANGED <<text_in, pass1, pass2, orchVars, rwVars>>

\* the five collapse rules applied a second time, to their own result
ReapplyCollapse ==
  /\ norm_pc = "normalized"
  /\ pass2' = CollapsePass(pass1)
  /\ norm_pc' = "twice"
  /\ UNCHANGED <<text_in, pass1, normalized, orchVars, rwVars>>

NormNext ==
  \/ ApplyCollapse
  \/ ApplyPunctuation
  \/ ReapplyCollapse

NormSpec == NormInit /\ [][NormNext]_vars

(* ----------------------- the word-by-word rewriter ---------------------- *)
\* len(word) > 15
LenLimit == 15

Letters(n) == [i \in 1..n |-> "a"]

\* sample words: a plain one, one with a digit, one of exactly 15 letters
\* and one of 16
Words == {<<"a">>, <<"a", "1">>, Letters(LenLimit), Letters(LenLimit + 1)}

Sentences == UNION {[1..n -> Words] : n \in 0..MaxWords}

\* re.search(r'\d', word)
HasDigit(word) == \E i \in DOMAIN word : IsDigit(word[i])

\* the two guards joined by "and"
SkipByHeuristicBoth(word) == Len(word) > LenLimit /\ HasDigit(word)

\* len(word) > 15 or re.search(r'\d', word)
SkipByHeuristic(word) == Len(word) > LenLimit \/ HasDigit(word)

\* get_close_matches(word, dnd_whitelist, n=1, cutoff=0.8): a library call,
\* any answer is allowed, but an empty whitelist has no match
FuzzyReplies(wl) == IF wl = {} THEN {FALSE} ELSE BOOLEAN

\* spell.unknown([word]) and spell.correction(word): whether one of them
\* raises, whether the word is unknown, and the candidate (None, "" or a word)
DictReplies == [fails : BOOLEAN, unknown : BOOLEAN, correction : {None, Some(<<>>), Some(<<"c">>)}]

\* word in dnd_whitelist or is_word_in_whitelist(word)
InWhitelist(word, wl, fuzzy) == word \in wl \/ fuzzy

\* the dictionary is reached only in the else branch
Consulted(word, wl, fuzzy) == ~InWhitelist(word, wl, fuzzy) /\ ~SkipByHeuristic(word)

\* lines 89-103: the word appended to corrected_sentence
CorrectWord(word, wl, fuzzy, d) ==
  IF InWhitelist(word, wl, fuzzy) THEN word
  ELSE IF SkipByHeuristic(word) THEN word
  ELSE IF d.fails THEN word
  ELSE IF d.unknown /\ Truthy(d.correction) THEN d.correction.val
  ELSE word

RewriteInit ==
  /\ dnd_whitelist \in {{}, {<<"a">>}, {Letters(LenLimit)}, {<<"b">>, <<>>}}
  /\ sentences \in UNION {[1..n -> Sentences] : n \in 0..2}
  /\ si = 1 /\ wi = 1 /\ corrected_sentence = <<>> /\ corrected_text = <<>>
  /\ lookups = {} /\ rw_pc = "words"
  /\ IdleOrch /\ IdleNorm

\* one iteration of "for word in words"
RewriteWord ==
  /\ rw_pc = "words" /\ si <= Len(sentences) /\ wi <= Len(sentences[si])
  /\ \E fuzzy \in FuzzyReplies(dnd_whitelist), d \in DictReplies :
       /\ corrected_sentence' = Append(corrected_sentence, CorrectWord(sentences[si][wi], dnd_whitelist, fuzzy, d))
       /\ lookups' = IF Consulted(sentences[si][wi], dnd_whitelist, fuzzy) THEN lookups \cup {sentences[si][wi]} ELSE lookups
  /\ wi' = wi + 1
  /\ UNCHANGED <<dnd_whitelist, sentences, si, corrected_text, rw_pc, orchVars, normVars>>

\* corrected_text.append(' '.join(corrected_sentence)); the joined sentence
\* is kept as the sequence of its words
EndSentence ==
  /\ rw_pc = "words" /\ si <= Len(sentences) /\ wi > Len(sentences[si])
  /\ corrected_text' = Append(corrected_text, corrected_sentence)
  /\ corrected_sentence' = <<>>
  /\ si' = si + 1 /\ wi' = 1
  /\ UNCHANGED <<dnd_whitelist, sentences, lookups, rw_pc, orchVars, normVars>>

\* return '\n\n'.join(corrected_text)
JoinText ==
  /\ rw_pc = "words" /\ si > Len(sentences)
  /\ rw_pc' = "returned"
  /\ UNCHANGED <<dnd_whitelist, sentences, si, wi, corrected_sentence, corrected_text, lookups, orchVars, normVars>>

RewriteNext ==
  \/ RewriteWord
  \/ EndSentence
  \/ JoinText

RewriteSpec == RewriteInit /\ [][RewriteNext]_vars

(* --------------------------- orchestration ----------------------------- *)
\* the folder holds at most MaxFiles entries; the output folder may already
\* hold the text file of some of its PDFs
Init ==
  /\ folder \in {S \in SUBSET Names : Cardinality(S) <= MaxFiles}
  /\ \E pre \in SUBSET {TxtFilePath(n) : n \in {m \in folder : EndsWithPdf(m)}} : files = [p \in pre |-> PreContent]
  /\ run = 0 /\ pc = "idle" /\ listing = <<>> /\ pdf_files = <<>> /\ idx = 0
  /\ pdf_path = <<>> /\ txt_file_path = <<>> /\ images = -1 /\ page_num = 0
  /\ page_log = <<>> /\ full_text = <<>> /\ extracted_text = None
  /\ cleaned_text = NoContent /\ stages = <<>> /\ invoked = <<>>
  /\ results = <<>> /\ at_start = <<>> /\ failure = "none"
  /\ IdleNorm /\ IdleRewrite

\* process_pdf_file reaches its end (or its early return)
Return(outcome) ==
  /\ results' = Append(results, outcome)
  /\ pc' = "returned"

\* an exception no handler catches: it leaves process_pdf_file and
\* process_pdf_folder and ends the process
Uncaught(cause) ==
  /\ results' = Append(results, "raised")
  /\ failure' = cause
  /\ pc' = "crashed"

\* process_pdf_folder up to the loop; every run is a fresh process
StartFolder ==
  /\ pc \in {"idle", "done", "crashed"}
  /\ run < MaxRuns
  /\ run' = run + 1
  /\ \E l \in Orderings(folder) :
       /\ listing' = l
       /\ pdf_files' = ListPdfFiles(l)
  /\ IF pdf_files' = <<>> THEN pc' = "done" /\ idx' = 0 ELSE pc' = "loop" /\ idx' = 1
  /\ invoked' = <<>> /\ results' = <<>> /\ failure' = "none"
  /\ at_start' = files
  /\ pdf_path' = <<>> /\ txt_file_path' = <<>> /\ images' = -1 /\ page_num' = 0
  /\ page_log' = <<>> /\ full_text' = <<>> /\ extracted_text' = None
  /\ cleaned_text' = NoContent /\ stages' = <<>>
  /\ UNCHANGED <<folder, files, normVars, rwVars>>

\* one iteration of the loop: process_pdf_file up to the existence check
ProcessFile ==
  /\ pc = "loop" /\ idx <= Len(pdf_files)
  /\ pdf_path' = pdf_files[idx]
  /\ txt_file_path' = TxtFilePath(pdf_files[idx])
  /\ invoked' = Append(invoked, pdf_files[idx])
  /\ IF AlreadyExists(txt_file_path', files)
       THEN Return("skipped")
       ELSE pc' = "rasterize" /\ UNCHANGED results
  /\ UNCHANGED <<folder, files, run, listing, pdf_files, idx, images, page_num, page_log, full_text, extracted_text, cleaned_text, stages, at_start, failure, normVars, rwVars>>

\* ocr_pdf_to_text without its outer handler
RasterFailurePropagates ==
  /\ extracted_text' = None
  /\ Uncaught("rasterize")

\* "except Exception as e: ... return None", then the else branch of
\* process_pdf_file
RasterFailure ==
  /\ extracted_text' = None
  /\ Return("failed_raster")
  /\ failure' = failure

\* convert_from_path: a list of page images, or an exception that the outer
\* handler of ocr_pdf_to_text turns into None
Rasterize ==
  /\ pc = "rasterize"
  /\ stages' = Append(stages, "rasterize")
  /\ \/ \E n \in 0..MaxPages :
          /\ images' = n /\ page_num' = 1 /\ full_text' = <<>>
          /\ pc' = "ocr"
          /\ UNCHANGED <<extracted_text, results, failure>>
     \/ /\ RasterFailure
        /\ UNCHANGED <<images, page_num, full_text>>
  /\ UNCHANGED <<folder, files, run, listing, pdf_files, idx, pdf_path, txt_file_path, page_log, cleaned_text, invoked, at_start, normVars, rwVars>>

\* sections numbered by their position in the text, not by the page
OcrPageTextRenumbered(ft, n, r) == IF r.ok THEN Append(ft, Section(Len(ft) + 1, r.text)) ELSE ft

\* body of the page loop: image_to_string and the append are in one try
\* block, so a failing page appends nothing
OcrPageText(ft, n, r) == IF r.ok THEN Append(ft, Section(n, r.text)) ELSE ft

OcrPage ==
  /\ pc = "ocr" /\ page_num <= images
  /\ \E r \in PageOutcomes :
       /\ full_text' = OcrPageText(full_text, page_num, r)
       /\ page_log' = Append(page_log, r)
  /\ page_num' = page_num + 1
  /\ stages' = Append(stages, "ocr")
  /\ UNCHANGED <<folder, files, run, pc, listing, pdf_files, idx, pdf_path, txt_file_path, images, extracted_text, cleaned_text, invoked, results, at_start, failure, normVars, rwVars>>

\* "return full_text" and the test "if extracted_text:" of process_pdf_file
OcrReturn ==
  /\ pc = "ocr" /\ page_num > images
  /\ extracted_text' = Some(full_text)
  /\ IF Truthy(extracted_text')
       THEN pc' = "normalize" /\ UNCHANGED results
       ELSE Return("failed_empty")
  /\ UNCHANGED <<folder, files, run, listing, pdf_files, idx, pdf_path, txt_file_path, images, page_num, page_log, full_text, cleaned_text, stages, invoked, at_start, failure, normVars, rwVars>>

\* the eight re.sub calls: pure, they cannot fail
NormalizeText ==
  /\ pc = "normalize"
  /\ stages' = Append(stages, "normalize")
  /\ pc' = "rewrite"
  /\ UNCHANGED <<folder, files, run, listing, pdf_files, idx, pdf_path, txt_file_path, images, page_num, page_log, full_text, extracted_text, cleaned_text, invoked, results, at_start, failure, normVars, rwVars>>

\* nlp(text) and the word loop: only the dictionary lookup has a handler, an
\* exception of the segmenter leaves process_pdf_file
RewriteText ==
  /\ pc = "rewrite"
  /\ stages' = Append(stages, "rewrite")
  /\ \/ /\ cleaned_text' = Cleaned(pdf_path, extracted_text.val)
        /\ pc' = "write"
        /\ UNCHANGED <<results, failure>>
     \/ /\ Uncaught("segment")
        /\ UNCHANGED cleaned_text
  /\ UNCHANGED <<folder, files, run, listing, pdf_files, idx, pdf_path, txt_file_path, images, page_num, page_log, full_text, extracted_text, invoked, at_start, normVars, rwVars>>

\* open(txt_file_path, 'w') and write: no handler; open may fail before the
\* file exists, write may fail after open has created it
WriteFile ==
  /\ pc = "write"
  /\ stages' = Append(stages, "write")
  /\ \/ /\ files' = (txt_file_path :> Stored(cleaned_text)) @@ files
        /\ Return("saved")
        /\ UNCHANGED failure
     \/ /\ files' = files
        /\ Uncaught("open")
     \/ /\ files' = (txt_file_path :> Partial(pdf_path)) @@ files
        /\ Uncaught("write")
  /\ UNCHANGED <<folder, run, listing, pdf_files, idx, pdf_path, txt_file_path, images, page_num, page_log, full_text, extracted_text, cleaned_text, invoked, at_start, normVars, rwVars>>

\* process_pdf_file has returned: its locals are gone and the loop takes
\* the next entry of pdf_files
NextFile ==
  /\ pc = "returned"
  /\ idx' = idx + 1
  /\ pc' = "loop"
  /\ pdf_path' = <<>> /\ txt_file_path' = <<>> /\ images' = -1 /\ page_num' = 0
  /\ page_log' = <<>> /\ full_text' = <<>> /\ extracted_text' = None
  /\ cleaned_text' = NoContent /\ stages' = <<>>
  /\ UNCHANGED <<folder, files, run, listing, pdf_files, invoked, results, at_start, failure, normVars, rwVars>>

\* the loop of process_pdf_folder is exhausted
FinishFolder ==
  /\ pc = "loop" /\ idx > Len(pdf_files)
  /\ pc' = "done"
  /\ UNCHANGED <<folder, files, run, listing, pdf_files, idx, docVars, invoked, results, at_start, failure, normVars, rwVars>>

Next ==
  \/ StartFolder
  \/ ProcessFile
  \/ Rasterize
  \/ OcrPage
  \/ OcrReturn
  \/ NormalizeText
  \/ RewriteText
  \/ WriteFile
  \/ NextFile
  \/ FinishFolder

Spec == Init /\ [][Next]_vars

\* the single thread always takes its next step
FairSpec == Spec /\ WF_vars(Next)

TypeOK ==
  /\ pc \in {"idle", "loop", "returned", "done", "crashed"} \cup Stages
  /\ run \in 0..MaxRuns
  /\ DOMAIN files \subseteq {TxtFilePath(n) : n \in Names}

(* ------------------------- properties of Spec --------------------------- *)
Last(s) == s[Len(s)]

Range(s) == {s[i] : i \in DOMAIN s}

\* C1: when the target text file of a PDF already exists, process_pdf_file
\* returns at once as a skip, with no stage (rasterize, OCR, normalize,
\* rewrite, write) run for it; a stage runs only for a target that does not
\* exist; and no step of any run removes or changes a file that exists
C1_SkipNeverOverwrites ==
  /\ [][ /\ (pc = "loop" /\ idx <= Len(pdf_files) /\ TxtFilePath(pdf_files[idx]) \in DOMAIN files)
            => (pc' = "returned" /\ stages' = <<>> /\ results' = Append(results, "skipped") /\ files' = files)
         /\ \A p \in DOMAIN files : p \in DOMAIN files' /\ files'[p] = files[p] ]_vars
  /\ [](pc \in Stages => txt_file_path \notin DOMAIN files)

C1_Witness ==
  /\ pc = "returned" /\ Last(results) = "skipped" /\ stages = <<>>
  /\ txt_file_path \in DOMAIN files /\ files[txt_file_path] = PreContent
  /\ \E i \in DOMAIN results : results[i] = "saved"

C3_SectionForEveryPage ==
  extracted_text.some =>
    /\ Len(page_log) = images
    /\ extracted_text.val = [i \in 1..images |-> Section(i, page_log[i].text)]

\* C3 amended: every page 1..N is attempted, and the returned text has one
\* section, numbered with the page's own 1-based number and holding its OCR
\* text, for exactly the pages whose OCR succeeded, in page order; a failed
\* page contributes nothing, not even its marker
C3_SectionForEverySuccessfulPage ==
  extracted_text.some =>
    LET v == extracted_text.val IN
      /\ Len(page_log) = images
      /\ {v[k].page : k \in DOMAIN v} = {i \in 1..images : page_log[i].ok}
      /\ \A k \in DOMAIN v : v[k].body = page_log[v[k].page].text
      /\ \A j, k \in DOMAIN v : j < k => v[j].page < v[k].page

C3_Witness ==
  /\ extracted_text.some /\ images = 2
  /\ ~page_log[1].ok /\ page_log[2].ok
  /\ extracted_text.val = <<Section(2, "x")>>

\* <name>.txt for an entry <name>.pdf: only the final extension is replaced
NameDotTxt(name) == Append(SubSeq(name, 1, Len(name) - 1), ".txt")

\* C4: the target of <name>.pdf is <name>.txt, so that two distinct PDFs of
\* a folder never share a target and none is skipped for another's output
C4_TargetIsNameDotTxt ==
  /\ pc \in Stages => txt_file_path = NameDotTxt(pdf_path)
  /\ \A i, j \in DOMAIN pdf_files : i # j => TxtFilePath(pdf_files[i]) # TxtFilePath(pdf_files[j])
  /\ \A i \in DOMAIN results : results[i] = "skipped" => NameDotTxt(invoked[i]) \in DOMAIN at_start

\* C5: a failing rasterization makes the extractor return None and
\* process_pdf_file return normally without creating a file, and the loop
\* goes on with the next entry; a later PDF of the listing is left out only
\* by an uncaught error of a later document, never by the rasterization
\* failure
C5_RasterFailureIsLocal ==
  /\ [][ /\ (pc = "rasterize" /\ pc' # "ocr")
            => /\ extracted_text' = None /\ files' = files
               /\ pc' = "returned" /\ failure' = "none"
               /\ results' = Append(results, "failed_raster")
         /\ (pc = "returned" /\ Last(results) = "failed_raster" /\ pc' # pc)
            => (pc' = "loop" /\ idx' = idx + 1 /\ files' = files /\ run' = run) ]_vars
  /\ [](\A i \in DOMAIN results : results[i] = "failed_raster" =>
          /\ pc = "done" => invoked = pdf_files
          /\ pc = "loop" => (idx > i /\ Len(invoked) = idx - 1)
          /\ pc = "crashed" => (Len(results) > i /\ failure \in {"segment", "open", "write"}))

C5_Witness ==
  /\ pc = "returned" /\ results = <<"failed_raster", "saved">>
  /\ TxtFilePath(invoked[1]) \notin DOMAIN files

\* C7: no failure of a per-document step ends process_pdf_folder
C7_NoErrorEscapes == pc # "crashed"

\* C9 as stated: a document that process_pdf_file has tried and left without
\* a text file is one for which the extractor returned None
C9_NoFileOnlyWhenNone ==
  (pc = "returned" /\ Last(results) # "skipped" /\ txt_file_path \notin DOMAIN files)
    => extracted_text = None

OcrReturned == pc \in {"normalize", "rewrite", "write"} \/ (pc \in {"returned", "crashed"} /\ stages # <<>>)

\* C9 amended: the extractor returns None exactly when rasterization fails
\* and the empty string exactly when rasterization succeeds but no page
\* gives a section (no page at all, or every page's OCR failed);
\* process_pdf_file normalizes and rewrites exactly when the returned text
\* is non-empty, and leaves the document without a text file both for None
\* and for the empty string
C9_NoFileWhenNoneOrEmpty ==
  OcrReturned =>
    /\ extracted_text = None <=> images = -1
    /\ extracted_text = Some(<<>>) <=> (images >= 0 /\ \A i \in 1..images : ~page_log[i].ok)
    /\ (pc = "normalize" \/ "normalize" \in Range(stages)) <=> (extracted_text.some /\ extracted_text.val # <<>>)
    /\ ~(extracted_text.some /\ extracted_text.val # <<>>) =>
          /\ pc = "returned" /\ Last(results) \in {"failed_raster", "failed_empty"}
          /\ txt_file_path \notin DOMAIN files
    /\ (pc = "returned" /\ Last(results) = "saved") => files[txt_file_path] = [kind |-> "cleaned", src |-> pdf_path]

C9_Witness ==
  /\ pc = "returned" /\ Last(results) = "failed_empty"
  /\ extracted_text = Some(<<>>) /\ images = 2
  /\ txt_file_path \notin DOMAIN files

\* position of a stage in the pipeline of one document
StageRank(st) == CASE st = "rasterize" -> 1 [] st = "ocr" -> 2 [] st = "normalize" -> 3 [] st = "rewrite" -> 4 [] st = "write" -> 5

StagesInOrder ==
  /\ \A i, j \in DOMAIN stages : i < j => StageRank(stages[i]) <= StageRank(stages[j])
  /\ \A i, j \in DOMAIN stages : (i < j /\ StageRank(stages[i]) = StageRank(stages[j])) => stages[i] = "ocr"
  /\ \A i \in DOMAIN stages : i > 1 => StageRank(stages[i]) - StageRank(stages[i - 1]) <= 1
  /\ stages # <<>> => stages[1] = "rasterize"
  /\ Cardinality({i \in DOMAIN stages : stages[i] = "ocr"}) = Len(page_log)
  /\ "normalize" \in Range(stages) => Len(page_log) = images

VisitsInOrder ==
  /\ run >= 1 => /\ listing \in Orderings(folder)
                 /\ pdf_files = SelectSeq(listing, EndsWithPdf)
  /\ Len(invoked) <= Len(pdf_files)
  /\ invoked = SubSeq(pdf_files, 1, Len(invoked))
  /\ pc \in Stages => Len(invoked) = Len(results) + 1
  /\ pc \notin Stages => Len(invoked) = Len(results)
  /\ pc = "done" => invoked = pdf_files
  /\ pc = "crashed" => failure \in {"segment", "open", "write"}

OneAtATime ==
  /\ (invoked' # invoked /\ run' = run)
       => /\ pc = "loop" /\ Len(results) = Len(invoked)
          /\ invoked' = Append(invoked, pdf_files[Len(invoked) + 1])
  /\ (pc = "ocr" /\ page_log' # page_log) => Len(page_log') = page_num
  /\ (stages' # stages /\ stages' # <<>>) => (pdf_path' = pdf_path /\ invoked' = invoked /\ stages' = Append(stages, pc))

\* C10: process_pdf_folder hands to process_pdf_file, once each and in the
\* order of the listing, exactly the entries whose name ends in ".pdf"; the
\* stages of a document run in the order rasterize, OCR page by page,
\* normalize, rewrite, write; a document is started only after the one
\* before it has returned; and a run always comes to its end, normally with
\* every listed PDF visited, or by an external call that raised instead of
\* returning
C10_SequentialInListingOrder ==
  /\ [](StagesInOrder /\ VisitsInOrder)
  /\ [][OneAtATime]_vars
  /\ (pc = "loop") ~> (pc \in {"done", "crashed"})

C10_Witness ==
  /\ pc = "returned" /\ results = <<"saved", "saved">> /\ invoked = pdf_files
  /\ stages = <<"rasterize", "ocr", "ocr", "normalize", "rewrite", "write">>

(* ----------------------- properties of NormSpec ------------------------- *)
\* C8 as stated: the five collapse rules applied twice give what they give
\* applied once, for every text
C8_CollapseIdempotent == norm_pc = "twice" => pass2 = pass1

\* two periods with nothing but asterisks and middle dots between them
PeriodsMeetAfterRemoval(s) == \E i, j \in DOMAIN s : /\ i + 1 < j /\ s[i] = Period /\ s[j] = Period
                                                    /\ \A k \in (i + 1)..(j - 1) : s[k] \in {Asterisk, MiddleDot}

\* C8 amended: the five collapse rules are idempotent on every text in which
\* no two periods are separated only by asterisks and middle dots; on a text
\* that has such a pair (".*.") the first pass leaves ".." and the second
\* pass changes it
C8_CollapseIdempotentUnlessPeriodsMeet == norm_pc = "twice" => (pass2 = pass1 <=> ~PeriodsMeetAfterRemoval(text_in))

C8_Witness ==
  /\ norm_pc = "twice" /\ pass2 = pass1 /\ pass1 # text_in
  /\ text_in = <<Period, Period, Newline, Space>>

(* ---------------------- properties of RewriteSpec ----------------------- *)
\* a word of one of the three guarded classes of C6
Guarded(word) == word \in dnd_whitelist \/ Len(word) > 15 \/ HasDigit(word)

EmittedAt(s, k) == IF s < si THEN corrected_text[s][k] ELSE corrected_sentence[k]

\* C6: a word that equals a whitelist entry, is longer than 15 characters or
\* holds a digit is emitted unchanged whatever the dictionary answers, and
\* the dictionary is consulted for no such word
C6_GuardedWordsVerbatim ==
  /\ \A s \in DOMAIN sentences : \A k \in DOMAIN sentences[s] :
       (s < si \/ (s = si /\ k < wi)) /\ Guarded(sentences[s][k]) => EmittedAt(s, k) = sentences[s][k]
  /\ \A w \in lookups : ~Guarded(w)

C6_Witness ==
  /\ rw_pc = "returned" /\ Len(sentences) = 1 /\ Len(sentences[1]) = 2
  /\ sentences[1][1] = Letters(16) /\ sentences[1][2] = Letters(15)
  /\ corrected_text[1] = <<Letters(16), <<"c">>>>
  /\ lookups = {Letters(15)}

=============================================================================
